---- MODULE Spec2Model ----
(***************************************************************************)
(* vibesafu: the PermissionRequest hook (hook.ts), its analyzers, and the  *)
(* LLM call utility (llm-call.ts).                                         *)
(*                                                                         *)
(* Text is a sequence of atoms (string pieces); concatenation is \o and    *)
(* the empty string is << >>.  A command is a sequence of lexemes.         *)
(***************************************************************************)
EXTENDS Integers, Sequences, FiniteSets, TLC

\* ------------------------------------------------------------------ bounds
\* Longest command, in lexemes.
MaxCmdLen == 3
\* Most evaluations one process performs (the tests call
\* processPermissionRequest repeatedly in one process).
MaxEvals == 2
\* The clock stops at MaxTime ticks; timeoutMs is at most MaxTimeout ticks.
MaxTime == 3
MaxTimeout == 2
MaxEntries == 2

\* ------------------------------------------------------------- command text
REVSHELL == "bash -i >& /dev/tcp/"
MINER    == "xmrig"
FETCH    == "curl"
PIPESH   == "| bash"
NPMI     == "npm install"
ENVWRITE == ">> .env"
GITPUSH  == "git push"
URL_BUN  == "https://bun.sh/install"
URL_EVIL == "https://evil.com/script.sh"
SPACE    == " "
LS       == "ls"

Tokens == {REVSHELL, MINER, FETCH, PIPESH, NPMI, ENVWRITE, GITPUSH,
           URL_BUN, URL_EVIL, SPACE, LS}

Urls == {URL_BUN, URL_EVIL}

Commands == UNION {[1..n -> Tokens] : n \in 0..MaxCmdLen}

\* JavaScript values that may be absent.
Null == [type |-> "null"]
Undefined == [type |-> "undefined"]
IsDefined(x) == "type" \notin DOMAIN x \/ x.type # "undefined"

\* String.prototype.trim() === '' : only whitespace lexemes.
IsBlank(command) == \A i \in 1..Len(command) : command[i] = SPACE

\* Array.prototype.join
RECURSIVE Join(_, _)
Join(list, sep) ==
  IF Len(list) = 0 THEN << >>
  ELSE IF Len(list) = 1 THEN <<list[1]>>
  ELSE <<list[1], sep>> \o Join(Tail(list), sep)

\* String.prototype.includes on text: needle occurs contiguously in hay.
Includes(hay, needle) ==
  \E i \in 0..(Len(hay) - Len(needle)) :
    \A j \in 1..Len(needle) : hay[i + j] = needle[j]

\* ------------------------------------------------------------ registries
\* config/patterns.ts: the ordered signature table.  lastIndex is the
\* matcher state of a RegExp object; it stays 0 for a pattern without the
\* global or sticky flag.
INSTANT_BLOCK_PATTERNS ==
  << [name |-> "reverse_shell", token |-> REVSHELL, severity |-> "critical",
      description |-> <<"reverse shell connection">>,
      risk |-> <<"gives a remote host an interactive shell">>,
      legitimateUses |-> <<"authorized penetration testing">>, lastIndex |-> 0],
     [name |-> "crypto_miner", token |-> MINER, severity |-> "high",
      description |-> <<"cryptocurrency miner">>,
      risk |-> <<"uses the machine to mine for someone else">>,
      legitimateUses |-> <<"mining on one's own hardware">>, lastIndex |-> 0] >>

\* config/domains.ts: the host allowlist, each host as its labels.
TRUSTED_DOMAINS == {<<"bun", "sh">>, <<"github", "com">>}

Registry0 == [patterns |-> INSTANT_BLOCK_PATTERNS, domains |-> TRUSTED_DOMAINS]

\* RegExp.prototype.test: a match at or after lastIndex.
RegexTest(pattern, command) ==
  \E i \in (pattern.lastIndex + 1)..Len(command) : command[i] = pattern.token

\* ------------------------------------------------------------- analyzers
\* guard/instant-block.ts: first matching signature in registry order.
FirstMatch(patterns, command) ==
  LET hits == {i \in 1..Len(patterns) : RegexTest(patterns[i], command)}
  IN IF hits = {} THEN 0 ELSE CHOOSE i \in hits : \A j \in hits : i <= j

checkInstantBlock(command, patterns) ==
  IF Len(command) = 0 \/ IsBlank(command)
  THEN [blocked |-> FALSE, hasReason |-> FALSE, reason |-> << >>]
  ELSE LET k == FirstMatch(patterns, command)
       IN IF k = 0
          THEN [blocked |-> FALSE, hasReason |-> FALSE, reason |-> << >>]
          ELSE [blocked |-> TRUE, hasReason |-> TRUE,
                reason |-> <<"Blocked: ">> \o patterns[k].description]

\* guard/checkpoint.ts: categories tried in a fixed priority order.
Has(command, t) == \E i \in 1..Len(command) : command[i] = t

PipedToShell(command) ==
  \E i, j \in 1..Len(command) : i < j /\ command[i] = FETCH /\ command[j] = PIPESH

Checkpoint(type, description, command) ==
  [type |-> type, description |-> description, command |-> command]

detectCheckpoint(command) ==
  IF PipedToShell(command)
  THEN Checkpoint("script_execution", <<"download piped to a shell">>, command)
  ELSE IF Has(command, FETCH)
  THEN Checkpoint("network", <<"network request">>, command)
  ELSE IF Has(command, NPMI)
  THEN Checkpoint("package_install", <<"package installation">>, command)
  ELSE IF Has(command, ENVWRITE)
  THEN Checkpoint("env_modification", <<"write to an env file">>, command)
  ELSE IF Has(command, GITPUSH)
  THEN Checkpoint("git_operation", <<"git push">>, command)
  ELSE Null

\* guard/trusted-domain.ts
HostOf(url) == IF url = URL_BUN THEN <<"bun", "sh">> ELSE <<"evil", "com">>

\* host equals entry, or is a subdomain of it (suffix on label boundaries).
HostMatches(host, entry) ==
  /\ Len(entry) <= Len(host)
  /\ \A k \in 1..Len(entry) : host[Len(host) - Len(entry) + k] = entry[k]

IsTrusted(url, domains) == \E e \in domains : HostMatches(HostOf(url), e)

checkTrustedDomains(command, domains) ==
  LET IsUrl(t) == t \in Urls
      Trusted(u) == IsTrusted(u, domains)
      Untrusted(u) == ~IsTrusted(u, domains)
      urls == SelectSeq(command, IsUrl)
  IN [urls |-> urls,
      trustedUrls |-> SelectSeq(urls, Trusted),
      untrustedUrls |-> SelectSeq(urls, Untrusted),
      allTrusted |-> Len(urls) > 0 /\ \A i \in 1..Len(urls) : Trusted(urls[i])]

\* ------------------------------------------------------------ JSON values
\* A JavaScript string value (as opposed to undefined).
Str(text) == [type |-> "string", text |-> text]

ToolNames == {"Bash", "Read"}

\* tool_input objects: { command }, { file_path }, or the property missing.
CommandInput(c) == [type |-> "object", kind |-> "command", command |-> c]
FileInput == [type |-> "object", kind |-> "file_path", command |-> << >>]
ToolInputs == {CommandInput(c) : c \in Commands} \cup {FileInput}

Request(tool, ti) == [type |-> "object", tool_name |-> tool, tool_input |-> ti]

\* Well-typed PermissionRequestInput values, as the callers in the tests build.
Requests ==
  {Request("Bash", CommandInput(c)) : c \in Commands}
    \cup {Request(t, ti) : t \in ToolNames \ {"Bash"}, ti \in ToolInputs}

\* Values JSON.parse can return for stdin: null, a number, a request object,
\* or an object whose tool_input is missing.
JsonNull == [type |-> "null", tool_name |-> "", tool_input |-> Undefined]
JsonNumber == [type |-> "number", tool_name |-> "", tool_input |-> Undefined]
JsonValues ==
  {JsonNull, JsonNumber} \cup Requests \cup {Request(t, Undefined) : t \in ToolNames}

\* Stdin contents: text that is JSON (with the value it denotes) or is not.
JsonText(v) == [json |-> TRUE, raw |-> "", value |-> v]
BadText(raw) == [json |-> FALSE, raw |-> raw, value |-> Undefined]
StdinContents == {JsonText(v) : v \in JsonValues} \cup {BadText(""), BadText("{oops")}

\* JSON.parse: the value, or a thrown SyntaxError.
JSONparse(content) ==
  IF content.json THEN [threw |-> FALSE, value |-> content.value]
  ELSE [threw |-> TRUE, value |-> Undefined]

\* Property read input.tool_name: TypeError on null, undefined on a primitive.
ToolNameOf(v) ==
  IF v.type = "null" THEN [threw |-> TRUE, name |-> ""]
  ELSE IF v.type = "object" THEN [threw |-> FALSE, name |-> v.tool_name]
  ELSE [threw |-> FALSE, name |-> "undefined"]

\* Property read input.tool_input.command: TypeError when tool_input is missing.
CommandOf(v) ==
  IF v.tool_input.type = "undefined" THEN [threw |-> TRUE, command |-> << >>]
  ELSE [threw |-> FALSE, command |-> v.tool_input.command]

\* ------------------------------------------------------------------ state
VARIABLES
  pc,            \* where the hook process is
  entry,         \* "runHook" or "direct" (processPermissionRequest called directly)
  stdin,         \* what runHook read from stdin
  input,         \* the PermissionRequestInput under evaluation
  command,       \* const command
  blockResult,   \* const blockResult
  checkpoint,    \* const checkpoint
  domainResult,  \* const domainResult
  result,        \* the ProcessResult returned
  stdout,        \* responses written by console.log
  calls,         \* analyzers invoked by the current evaluation, in order
  registry,      \* the signature and allowlist registries of the process
  evals          \* evaluations this process has completed

hookVars == <<pc, entry, stdin, input, command, blockResult, checkpoint,
              domainResult, result, stdout, calls, registry, evals>>

\* callLLM
VARIABLES
  llmPc,        \* "idle", "awaiting" (at the await), "resolved"
  now,          \* the clock, in ticks
  deadline,     \* when the timeout timer is due
  timer,        \* "none", "pending", "fired", "cleared"
  aborted,      \* controller.signal.aborted
  remoteCalls,  \* client.messages.create calls issued
  settledBy,    \* how the remote call settled: "none", "response", "error", "abort"
  settledWith,  \* the response content or the error the remote call settled with
  llmResult     \* the LLMCallResult the promise resolved to

llmVars == <<llmPc, now, deadline, timer, aborted, remoteCalls, settledBy,
             settledWith, llmResult>>

\* checkHighRiskPatterns (high-risk.ts)
VARIABLES
  hrPc,        \* "idle", "guard", "loop", "done"
  hrCommand,   \* the argument
  hrPatterns,  \* INSTANT_BLOCK_PATTERNS as imported
  hrIndex,     \* position of the for-of loop
  hrTested,    \* names of the signatures whose pattern.test was called
  hrResult     \* the HighRiskResult returned

hrVars == <<hrPc, hrCommand, hrPatterns, hrIndex, hrTested, hrResult>>

\* install and uninstall (cli/install.ts)
VARIABLES
  file,       \* content of the settings file
  serial,     \* the content the runs so far give when run one after another
  ipc,        \* per process: "idle", "read", "decide", "write", "writing",
              \*              "skipped", "written", "fault"
  iop,        \* per process: "none", "install", "uninstall"
  isettings,  \* per process: the settings object of the run
  ibefore,    \* per process: the file content the run read
  prevRun     \* the run that ended last: its operation, what it read, how it ended

installVars == <<file, serial, ipc, iop, isettings, ibefore, prevRun>>

vars == <<hookVars, llmVars, hrVars, installVars>>

HookInit ==
  /\ pc = "idle"
  /\ entry = "none"
  /\ stdin = Undefined
  /\ input = Undefined
  /\ command = << >>
  /\ blockResult = Undefined
  /\ checkpoint = Undefined
  /\ domainResult = Undefined
  /\ result = Undefined
  /\ stdout = << >>
  /\ calls = << >>
  /\ registry = Registry0
  /\ evals = 0

\* A fresh activation of processPermissionRequest: no local is assigned yet.
FreshLocals ==
  /\ command' = << >>
  /\ blockResult' = Undefined
  /\ checkpoint' = Undefined
  /\ domainResult' = Undefined
  /\ result' = Undefined
  /\ calls' = << >>

ProcessResult(decision, reason, source, cp) ==
  [decision |-> decision, reason |-> reason, source |-> source, checkpoint |-> cp]

\* ----------------------------------------------------------- createHookOutput
createHookOutput(decision, message) ==
  [hookEventName |-> "PermissionRequest",
   behavior |-> decision,
   message |-> message]

\* ------------------------------------------------- processPermissionRequest
\* A caller (the tests) invokes processPermissionRequest(input) directly.
Call ==
  /\ pc = "idle"
  /\ evals < MaxEvals
  /\ pc' = "step1"
  /\ entry' = "direct"
  /\ \E req \in Requests : input' = req
  /\ FreshLocals
  /\ UNCHANGED <<stdin, stdout, registry, evals>>

\* Step 1: only Bash is analyzed; then const command = input.tool_input.command.
NonBashReason(name) == <<"Tool ", name, " is not Bash, allowing">>

\* A tool other than Bash is allowed unseen (the mutant analyzes every tool).
IsBashTool_everyTool(name) == TRUE

IsBashTool(name) == name = "Bash"

ToolCheck ==
  /\ pc = "step1"
  /\ LET tn == ToolNameOf(input) IN
       IF tn.threw
       THEN /\ pc' = "fault"
            /\ UNCHANGED <<command, result>>
       ELSE IF ~IsBashTool(tn.name)
       THEN /\ result' = ProcessResult("allow", NonBashReason(tn.name),
                                       "non-bash-tool", Undefined)
            /\ pc' = "returned"
            /\ UNCHANGED command
       ELSE LET c == CommandOf(input) IN
            IF c.threw
            THEN /\ pc' = "fault"
                 /\ UNCHANGED <<command, result>>
            ELSE /\ command' = c.command
                 /\ pc' = "step2"
                 /\ UNCHANGED result
  /\ UNCHANGED <<entry, stdin, input, blockResult, checkpoint, domainResult,
                 stdout, calls, registry, evals>>

\* Step 2: instant block.
\* (the mutant drops the checker's reason for the fixed text)
BlockReason_fixedText(br) == <<"Blocked by instant block">>

BlockReason(br) == IF br.hasReason THEN br.reason ELSE <<"Blocked by instant block">>

\* if (blockResult.blocked) (the mutant lets a block with a trusted URL pass).
IsBlocked_unlessTrusted(br, cmd) ==
  br.blocked /\ ~checkTrustedDomains(cmd, TRUSTED_DOMAINS).allTrusted

IsBlocked(br, cmd) == br.blocked

\* The mutant leaves matcher state behind, as test() on a global RegExp
\* does: lastIndex moves past a match and returns to 0 on a miss.
TestedPatterns(patterns, cmd) ==
  [i \in DOMAIN patterns |->
     IF Len(cmd) = 0 \/ IsBlank(cmd) THEN patterns[i]
     ELSE IF FirstMatch(patterns, cmd) # 0 /\ i > FirstMatch(patterns, cmd)
     THEN patterns[i]
     ELSE [patterns[i] EXCEPT !.lastIndex =
            IF RegexTest(patterns[i], cmd)
            THEN CHOOSE k \in (patterns[i].lastIndex + 1)..Len(cmd) :
                   /\ cmd[k] = patterns[i].token
                   /\ \A j \in (patterns[i].lastIndex + 1)..(k - 1) :
                        cmd[j] # patterns[i].token
            ELSE 0]]

InstantBlock_statefulMatcher ==
  /\ pc = "step2"
  /\ LET br == checkInstantBlock(command, registry.patterns) IN
       /\ blockResult' = br
       /\ calls' = Append(calls, "checkInstantBlock")
       /\ IF IsBlocked(br, command)
          THEN /\ result' = ProcessResult("deny", BlockReason(br), "instant-block",
                                          Undefined)
               /\ pc' = "returned"
          ELSE /\ pc' = "step3"
               /\ UNCHANGED result
  /\ registry' = [registry EXCEPT !.patterns = TestedPatterns(registry.patterns, command)]
  /\ UNCHANGED <<entry, stdin, input, command, checkpoint, domainResult, stdout, evals>>

InstantBlock ==
  /\ pc = "step2"
  /\ LET br == checkInstantBlock(command, registry.patterns) IN
       /\ blockResult' = br
       /\ calls' = Append(calls, "checkInstantBlock")
       /\ IF IsBlocked(br, command)
          THEN /\ result' = ProcessResult("deny", BlockReason(br), "instant-block",
                                          Undefined)
               /\ pc' = "returned"
          ELSE /\ pc' = "step3"
               /\ UNCHANGED result
  /\ UNCHANGED <<entry, stdin, input, command, checkpoint, domainResult, stdout,
                 registry, evals>>

\* Step 3: checkpoint detection.
\* The mutant sends a command without a checkpoint to review.
NoCheckpointResult_review ==
  ProcessResult("needs-review", <<"No security checkpoint triggered">>, "checkpoint",
                Null)

NoCheckpointResult ==
  ProcessResult("allow", <<"No security checkpoint triggered">>, "no-checkpoint",
                Undefined)

DetectCheckpoint ==
  /\ pc = "step3"
  /\ LET cp == detectCheckpoint(command) IN
       /\ checkpoint' = cp
       /\ calls' = Append(calls, "detectCheckpoint")
       /\ IF cp.type = "null"
          THEN /\ result' = NoCheckpointResult
               /\ pc' = "returned"
          ELSE /\ pc' = "step4"
               /\ UNCHANGED result
  /\ UNCHANGED <<entry, stdin, input, command, blockResult, domainResult, stdout,
                 registry, evals>>

\* Step 4: trusted domains, for script execution and network only.
\* The mutant lets trusted URLs downgrade any checkpoint.
DomainEligible_any(cp) == TRUE

DomainEligible(cp) == cp.type = "script_execution" \/ cp.type = "network"

\* The mutant allows as soon as one URL is trusted.
DomainAllows_someTrusted(dr) == Len(dr.trustedUrls) > 0

DomainAllows(dr) == dr.allTrusted /\ Len(dr.urls) > 0

TrustedReason(dr) == <<"All URLs from trusted domains: ">> \o Join(dr.trustedUrls, ", ")

TrustedDomain ==
  /\ pc = "step4"
  /\ IF DomainEligible(checkpoint)
     THEN LET dr == checkTrustedDomains(command, registry.domains) IN
            /\ domainResult' = dr
            /\ calls' = Append(calls, "checkTrustedDomains")
            /\ IF DomainAllows(dr)
               THEN /\ result' = ProcessResult("allow", TrustedReason(dr),
                                               "trusted-domain", Undefined)
                    /\ pc' = "returned"
               ELSE /\ pc' = "step5"
                    /\ UNCHANGED result
     ELSE /\ pc' = "step5"
          /\ UNCHANGED <<domainResult, calls, result>>
  /\ UNCHANGED <<entry, stdin, input, command, blockResult, checkpoint, stdout,
                 registry, evals>>

\* Step 5: the checkpoint stands; needs review.
ReviewReason(cp) == <<"Checkpoint triggered: ", cp.type, " - ">> \o cp.description

NeedsReview ==
  /\ pc = "step5"
  /\ result' = ProcessResult("needs-review", ReviewReason(checkpoint), "checkpoint",
                             checkpoint)
  /\ pc' = "returned"
  /\ UNCHANGED <<entry, stdin, input, command, blockResult, checkpoint, domainResult,
                 stdout, calls, registry, evals>>

\* The direct caller has its result and the activation is gone; the process
\* (with its registries) may evaluate another request.
Return ==
  /\ pc = "returned"
  /\ entry = "direct"
  /\ pc' = "idle"
  /\ entry' = "none"
  /\ input' = Undefined
  /\ evals' = evals + 1
  /\ FreshLocals
  /\ UNCHANGED <<stdin, stdout, registry>>

\* -------------------------------------------------------------------- runHook
\* Read all of stdin.
ReadStdin ==
  /\ pc = "idle"
  /\ entry = "none"
  /\ evals = 0
  /\ pc' = "parse"
  /\ entry' = "runHook"
  /\ \E content \in StdinContents : stdin' = content
  /\ UNCHANGED <<input, command, blockResult, checkpoint, domainResult, result,
                 stdout, calls, registry, evals>>

\* JSON.parse in try/catch: invalid JSON is denied and runHook returns.
\* The mutant denies without a message.
InvalidJsonOutput_noMessage == createHookOutput("deny", Undefined)

InvalidJsonOutput == createHookOutput("deny", Str(<<"Invalid JSON input">>))

ParseInput ==
  /\ pc = "parse"
  /\ LET p == JSONparse(stdin) IN
       IF p.threw
       THEN /\ stdout' = Append(stdout, InvalidJsonOutput)
            /\ pc' = "exit"
            /\ UNCHANGED input
       ELSE /\ input' = p.value
            /\ pc' = "step1"
            /\ UNCHANGED stdout
  /\ UNCHANGED <<entry, stdin, command, blockResult, checkpoint, domainResult,
                 result, calls, registry, evals>>

\* Convert the result to the hook output and print it.
ReviewMessage(reason) ==
  <<"Security review required: ">> \o reason
    \o <<". Configure API key with 'vibesafe config' to enable LLM analysis.">>

\* The mutant lets a verdict that is not a deny through.
HookOutputFor_reviewAllowed(r) ==
  IF r.decision = "deny" THEN createHookOutput("deny", Str(r.reason))
  ELSE createHookOutput("allow", Undefined)

HookOutputFor(r) ==
  IF r.decision = "deny" THEN createHookOutput("deny", Str(r.reason))
  ELSE IF r.decision = "needs-review"
  THEN createHookOutput("deny", Str(ReviewMessage(r.reason)))
  ELSE createHookOutput("allow", Undefined)

Emit ==
  /\ pc = "returned"
  /\ entry = "runHook"
  /\ stdout' = Append(stdout, HookOutputFor(result))
  /\ pc' = "exit"
  /\ UNCHANGED <<entry, stdin, input, command, blockResult, checkpoint, domainResult,
                 result, calls, registry, evals>>

HookNext ==
  \/ Call /\ UNCHANGED <<llmVars, hrVars, installVars>>
  \/ ToolCheck /\ UNCHANGED <<llmVars, hrVars, installVars>>
  \/ InstantBlock /\ UNCHANGED <<llmVars, hrVars, installVars>>
  \/ DetectCheckpoint /\ UNCHANGED <<llmVars, hrVars, installVars>>
  \/ TrustedDomain /\ UNCHANGED <<llmVars, hrVars, installVars>>
  \/ NeedsReview /\ UNCHANGED <<llmVars, hrVars, installVars>>
  \/ Return /\ UNCHANGED <<llmVars, hrVars, installVars>>
  \/ ReadStdin /\ UNCHANGED <<llmVars, hrVars, installVars>>
  \/ ParseInput /\ UNCHANGED <<llmVars, hrVars, installVars>>
  \/ Emit /\ UNCHANGED <<llmVars, hrVars, installVars>>

\* -------------------------------------------------------------------- callLLM
\* What client.messages.create can resolve to: response.content.
TEXT_JSON == "{\"classification\":\"safe\"}"
TEXT_JSON_RISKY == "{\"classification\":\"risky\"}"
JsonFragments == {TEXT_JSON, TEXT_JSON_RISKY}
TextBlock(text) == [type |-> "text", text |-> text]
Response(content) == [type |-> "response", content |-> content]
ToolUseBlock == [type |-> "tool_use", text |-> << >>]
Responses ==
  { << >>,                                               \* no content block
    <<ToolUseBlock>>,                                    \* first block not text
    <<TextBlock(<< >>)>>,                                \* empty text
    <<TextBlock(<<"I cannot classify this.">>)>>,        \* prose only
    <<TextBlock(<<"Here it is: ", TEXT_JSON, " ok">>)>>, \* JSON amid prose
    <<TextBlock(<<TEXT_JSON_RISKY, TEXT_JSON>>)>>,       \* two fragments
    <<ToolUseBlock, TextBlock(<<TEXT_JSON>>)>> }         \* text only second

\* What it can reject with: an Error with a message, or a thrown non-Error.
ErrorOf(message) == [type |-> "error", isError |-> TRUE, message |-> message]
NonError == [type |-> "error", isError |-> FALSE, message |-> << >>]
ABORT_ERROR == ErrorOf(<<"Request was ", "abort", "ed.">>)
TransportErrors ==
  { ErrorOf(<<"Connection error.">>),
    ErrorOf(<<"504 Gateway ", "timeout">>),
    ErrorOf(<<"401 invalid x-api-key">>),
    NonError }

\* utils/sanitize.ts: the first well-formed JSON fragment of the text, or null.
ParseJson(atom) ==
  [type |-> "object",
   classification |-> IF atom = TEXT_JSON THEN "safe" ELSE "risky"]

extractJsonFromText(text) ==
  LET hits == {i \in 1..Len(text) : text[i] \in JsonFragments}
  IN IF hits = {} THEN Null
     ELSE ParseJson(text[CHOOSE i \in hits : \A j \in hits : i <= j])

LLMOk(data) == [ok |-> TRUE, error |-> "", message |-> << >>, data |-> data]
LLMError(error, message) ==
  [ok |-> FALSE, error |-> error, message |-> message, data |-> Null]

\* response.content[0]?.type === 'text' ? response.content[0].text : ''
\* The mutant takes the text of the first text block wherever it stands.
FirstText_anyBlock(content) ==
  LET texts == SelectSeq(content, LAMBDA b : b.type = "text") IN
    IF Len(texts) > 0 THEN texts[1].text ELSE << >>

FirstText(content) ==
  IF Len(content) > 0 /\ content[1].type = "text" THEN content[1].text ELSE << >>

\* Lines 50-61: classify a response.
ClassifyResponse(content) ==
  LET text == FirstText(content) IN
    IF Len(text) = 0
    THEN LLMError("empty_response", <<"Empty response from LLM">>)
    ELSE LET extracted == extractJsonFromText(text) IN
           IF extracted.type = "null"
           THEN LLMError("parse_error", <<"Could not parse JSON response">>)
           ELSE LLMOk(extracted)

\* Lines 62-70: classify what was caught.
\* The mutant recognises only the word timeout.
IsTimeoutMessage_timeoutOnly(message) == Includes(message, <<"timeout">>)

IsTimeoutMessage(message) ==
  Includes(message, <<"abort">>) \/ Includes(message, <<"timeout">>)

\* error instanceof Error ? error.message : 'Unknown error'
\* The mutant reads .message of whatever was thrown: undefined for a
\* non-Error.
CatchMessage_noInstanceCheck(error) ==
  IF error.isError THEN Str(error.message) ELSE Undefined

CatchMessage(error) ==
  IF error.isError THEN Str(error.message) ELSE Str(<<"Unknown error">>)

\* A TypeError thrown inside the catch block leaves callLLM rejected.
LLMRaised == [ok |-> FALSE, error |-> "TypeError", message |-> << >>, data |-> Null]

ClassifyError(error) ==
  LET errorMessage == CatchMessage(error) IN
    IF ~IsDefined(errorMessage) THEN LLMRaised
    ELSE IF IsTimeoutMessage(errorMessage.text)
    THEN LLMError("timeout", <<"API timeout">>)
    ELSE LLMError("api_error", errorMessage.text)

\* Where callLLM's promise stands once the result is produced.
Settled(r) == IF r.error = "TypeError" THEN "rejected" ELSE "resolved"

LLMInit ==
  /\ llmPc = "idle"
  /\ now = 0
  /\ deadline = 0
  /\ timer = "none"
  /\ aborted = FALSE
  /\ remoteCalls = 0
  /\ settledBy = "none"
  /\ settledWith = Undefined
  /\ llmResult = Undefined

\* callLLM up to its await: new AbortController, setTimeout, messages.create.
StartCall ==
  /\ llmPc = "idle"
  /\ \E timeoutMs \in 1..MaxTimeout :
       /\ now + timeoutMs <= MaxTime
       /\ deadline' = now + timeoutMs
  /\ timer' = "pending"
  /\ aborted' = FALSE
  /\ remoteCalls' = remoteCalls + 1
  /\ llmPc' = "awaiting"
  /\ UNCHANGED <<now, settledBy, settledWith, llmResult>>

\* Time passes.
Tick ==
  /\ now < MaxTime
  /\ now' = now + 1
  /\ UNCHANGED <<llmPc, deadline, timer, aborted, remoteCalls, settledBy, settledWith,
                 llmResult>>

\* The timeout callback: controller.abort().  A timer never runs early.
TimerFire ==
  /\ timer = "pending"
  /\ now >= deadline
  /\ timer' = "fired"
  /\ aborted' = TRUE
  /\ UNCHANGED <<llmPc, now, deadline, remoteCalls, settledBy, settledWith, llmResult>>

\* The remote call resolves: clearTimeout, then the response is classified.
RemoteRespond ==
  /\ llmPc = "awaiting"
  /\ ~aborted
  /\ \E content \in Responses :
       /\ settledWith' = Response(content)
       /\ llmResult' = ClassifyResponse(content)
       /\ llmPc' = Settled(ClassifyResponse(content))
  /\ timer' = "cleared"
  /\ settledBy' = "response"
  /\ UNCHANGED <<now, deadline, aborted, remoteCalls>>

\* The remote call rejects with a transport or service error: the catch block.
\* The mutant calls the remote service again instead of returning.
RemoteFail_retry ==
  /\ llmPc = "awaiting"
  /\ ~aborted
  /\ \E error \in TransportErrors : settledWith' = error
  /\ remoteCalls' = remoteCalls + 1
  /\ UNCHANGED <<llmPc, now, deadline, timer, aborted, settledBy, llmResult>>

RemoteFail ==
  /\ llmPc = "awaiting"
  /\ ~aborted
  /\ \E error \in TransportErrors :
       /\ settledWith' = error
       /\ llmResult' = ClassifyError(error)
       /\ llmPc' = Settled(ClassifyError(error))
  /\ settledBy' = "error"
  /\ UNCHANGED <<now, deadline, timer, aborted, remoteCalls>>

\* The signal was aborted: the client rejects the pending call with its abort
\* error, which the catch block classifies.
RemoteAborted ==
  /\ llmPc = "awaiting"
  /\ aborted
  /\ settledWith' = ABORT_ERROR
  /\ llmResult' = ClassifyError(ABORT_ERROR)
  /\ llmPc' = Settled(ClassifyError(ABORT_ERROR))
  /\ settledBy' = "abort"
  /\ UNCHANGED <<now, deadline, timer, aborted, remoteCalls>>

LLMNext ==
  \/ StartCall /\ UNCHANGED <<hookVars, hrVars, installVars>>
  \/ Tick /\ UNCHANGED <<hookVars, hrVars, installVars>>
  \/ TimerFire /\ UNCHANGED <<hookVars, hrVars, installVars>>
  \/ RemoteRespond /\ UNCHANGED <<hookVars, hrVars, installVars>>
  \/ RemoteFail /\ UNCHANGED <<hookVars, hrVars, installVars>>
  \/ RemoteAborted /\ UNCHANGED <<hookVars, hrVars, installVars>>

\* ------------------------------------------------- checkHighRiskPatterns
\* The lexemes the signatures below react to, and one they do not.
HRTokens == {REVSHELL, MINER, SPACE, LS}
HRCommands == UNION {[1..n -> HRTokens] : n \in 0..MaxCmdLen}

\* A signature that matches white space.
WHITESPACE_PATTERN ==
  [name |-> "any_whitespace", token |-> SPACE, severity |-> "medium",
   description |-> <<"command with white space">>,
   risk |-> <<"none">>, legitimateUses |-> <<"any">>, lastIndex |-> 0]

\* config/patterns.ts is imported, not defined, by high-risk.ts: the function
\* is run with every ordered table of distinct signatures out of these,
\* INSTANT_BLOCK_PATTERNS being one of them.
HRSignatures ==
  {INSTANT_BLOCK_PATTERNS[1], INSTANT_BLOCK_PATTERNS[2], WHITESPACE_PATTERN}
HRRegistries ==
  {r \in UNION {[1..n -> HRSignatures] : n \in 0..3} :
     \A i, j \in 1..Len(r) : i # j => r[i] # r[j]}

NotDetected == [detected |-> FALSE]
Detected(pattern) ==
  [detected |-> TRUE, patternName |-> pattern.name,
   severity |-> pattern.severity, description |-> pattern.description,
   risk |-> pattern.risk, legitimateUses |-> pattern.legitimateUses]

\* !command || !command.trim(); the mutant leaves out the trim.
IsEmptyCommand_noTrim(cmd) == Len(cmd) = 0

IsEmptyCommand(cmd) == Len(cmd) = 0 \/ IsBlank(cmd)

HRInit ==
  /\ hrPc = "idle"
  /\ hrCommand = Undefined
  /\ hrPatterns = Undefined
  /\ hrIndex = 0
  /\ hrTested = << >>
  /\ hrResult = Undefined

\* checkHighRiskPatterns(command) is called.
HRCall ==
  /\ hrPc = "idle"
  /\ hrPc' = "guard"
  /\ \E c \in HRCommands : hrCommand' = c
  /\ \E r \in HRRegistries : hrPatterns' = r
  /\ UNCHANGED <<hrIndex, hrTested, hrResult>>

\* Lines 23-25.
HRGuard ==
  /\ hrPc = "guard"
  /\ IF IsEmptyCommand(hrCommand)
     THEN hrResult' = NotDetected /\ hrPc' = "done" /\ hrIndex' = hrIndex
     ELSE hrResult' = hrResult /\ hrPc' = "loop" /\ hrIndex' = 1
  /\ UNCHANGED <<hrCommand, hrPatterns, hrTested>>

\* Lines 27-38: one iteration of the loop.
HRIterate ==
  /\ hrPc = "loop"
  /\ hrIndex <= Len(hrPatterns)
  /\ hrTested' = Append(hrTested, hrPatterns[hrIndex].name)
  /\ IF RegexTest(hrPatterns[hrIndex], hrCommand)
     THEN /\ hrResult' = Detected(hrPatterns[hrIndex])
          /\ hrPc' = "done"
          /\ hrIndex' = hrIndex
     ELSE /\ hrResult' = hrResult
          /\ hrPc' = hrPc
          /\ hrIndex' = hrIndex + 1
  /\ UNCHANGED <<hrCommand, hrPatterns>>

\* Line 40: the loop ended without a match.
HRExhausted ==
  /\ hrPc = "loop"
  /\ hrIndex > Len(hrPatterns)
  /\ hrResult' = NotDetected
  /\ hrPc' = "done"
  /\ UNCHANGED <<hrCommand, hrPatterns, hrIndex, hrTested>>

HRNext ==
  \/ HRCall /\ UNCHANGED <<hookVars, llmVars, installVars>>
  \/ HRGuard /\ UNCHANGED <<hookVars, llmVars, installVars>>
  \/ HRIterate /\ UNCHANGED <<hookVars, llmVars, installVars>>
  \/ HRExhausted /\ UNCHANGED <<hookVars, llmVars, installVars>>

\* ---------------------------------------------------- install / uninstall
\* JSON values of the settings file.  An absent key is Undefined.
Arr(items) == [type |-> "array", items |-> items]
HookCommand(text) == [type |-> "command", command |-> text]

VIBESAFU_HOOK ==
  [matcher |-> "*", hooks |-> <<HookCommand(<<"npx ", "vibesafu", " check">>)>>]

\* Entries of other tools: one on its own, one that shares its matcher entry
\* with a vibesafu command.
AUDIT_COMMAND == HookCommand(<<"./audit.sh">>)
OTHER_HOOK == [matcher |-> "Bash", hooks |-> <<AUDIT_COMMAND>>]
SHARED_HOOK ==
  [matcher |-> "*",
   hooks |-> <<AUDIT_COMMAND, HookCommand(<<"npx ", "vibesafu", " check">>)>>]

HasMarker(entry_) ==
  \E j \in 1..Len(entry_.hooks) : Includes(entry_.hooks[j].command, <<"vibesafu">>)

Marked(items) == {i \in 1..Len(items) : HasMarker(items[i])}

\* The PermissionRequest lists a settings file starts with.
PermissionRequestLists ==
  {l \in UNION {[1..n -> {VIBESAFU_HOOK, OTHER_HOOK, SHARED_HOOK}] : n \in 0..MaxEntries} :
     Cardinality(Marked(l)) <= 1}

HooksObject(preToolUse, permissionRequest) ==
  [type |-> "object", PreToolUse |-> preToolUse,
   PermissionRequest |-> permissionRequest]

SettingsObject(model, hooks) == [type |-> "object", model |-> model, hooks |-> hooks]

HooksValues ==
  {Undefined} \cup
  {HooksObject(pre, pr) :
     pre \in BOOLEAN,
     pr \in {Undefined} \cup {Arr(l) : l \in PermissionRequestLists}}

SettingsValues == {SettingsObject(m, h) : m \in BOOLEAN, h \in HooksValues}

\* File contents: no file, text that is not JSON (empty after a truncation,
\* or written by hand with a mistake), JSON text.
Missing == [type |-> "missing"]
EmptyText == [type |-> "text", parses |-> FALSE, raw |-> "", value |-> Undefined]
InvalidText ==
  [type |-> "text", parses |-> FALSE, raw |-> "{ \"model\": \"x\", }", value |-> Undefined]
\* JSON.stringify(settings, null, 2)
SettingsText(value) == [type |-> "text", parses |-> TRUE, raw |-> "json", value |-> value]

InitialFiles ==
  {Missing, InvalidText, SettingsText(Null)} \cup {SettingsText(v) : v \in SettingsValues}

\* readClaudeSettings: {} when the file is missing or does not parse.
readClaudeSettings(content) ==
  IF content.type = "missing" \/ ~content.parses
  THEN SettingsObject(FALSE, Undefined)
  ELSE content.value

\* settings.hooks?.PermissionRequest ?? []
PermissionRequestOf(settings) ==
  IF IsDefined(settings.hooks) /\ IsDefined(settings.hooks.PermissionRequest)
  THEN settings.hooks.PermissionRequest.items
  ELSE << >>

\* The mutant never finds the hook.
isHookInstalled_never(settings) == FALSE

isHookInstalled(settings) == Marked(PermissionRequestOf(settings)) # {}

\* install, lines 124-133: the settings object after the push.
installSettings(settings) ==
  LET h == IF IsDefined(settings.hooks) THEN settings.hooks
           ELSE HooksObject(FALSE, Undefined)
      pr == IF IsDefined(h.PermissionRequest) THEN h.PermissionRequest.items
            ELSE << >>
  IN [settings EXCEPT
        !.hooks = [h EXCEPT !.PermissionRequest = Arr(Append(pr, VIBESAFU_HOOK))]]

\* uninstall, lines 157-170: filter, then delete what became empty.
\* The mutant filters and leaves the emptied containers in place.
uninstallSettings_noCleanup(settings) ==
  IF IsDefined(settings.hooks) /\ IsDefined(settings.hooks.PermissionRequest)
  THEN [settings EXCEPT
          !.hooks.PermissionRequest =
             Arr(SelectSeq(settings.hooks.PermissionRequest.items,
                           LAMBDA h : ~HasMarker(h)))]
  ELSE settings

uninstallSettings(settings) ==
  IF IsDefined(settings.hooks) /\ IsDefined(settings.hooks.PermissionRequest)
  THEN LET kept == SelectSeq(settings.hooks.PermissionRequest.items,
                             LAMBDA h : ~HasMarker(h))
           pr == IF Len(kept) = 0 THEN Undefined ELSE Arr(kept)
           hooks == [settings.hooks EXCEPT !.PermissionRequest = pr]
       IN IF ~hooks.PreToolUse /\ ~IsDefined(pr)
          THEN [settings EXCEPT !.hooks = Undefined]
          ELSE [settings EXCEPT !.hooks = hooks]
  ELSE settings

\* One run of install or uninstall from start to end on a file content:
\* what the file holds afterwards.
Writes(op, settings) ==
  /\ settings.type = "object"
  /\ IF op = "install" THEN ~isHookInstalled(settings) ELSE isHookInstalled(settings)

ApplyOp(op, content) ==
  LET settings == readClaudeSettings(content) IN
    IF ~Writes(op, settings) THEN content
    ELSE IF op = "install" THEN SettingsText(installSettings(settings))
    ELSE SettingsText(uninstallSettings(settings))

\* The processes that may run the CLI at the same time, and the one that runs
\* when runs follow one another.
Procs == {"p1", "p2"}
SeqProcs == {"p1"}

InstallInit ==
  /\ file = Undefined
  /\ serial = Undefined
  /\ ipc = [p \in Procs |-> "idle"]
  /\ iop = [p \in Procs |-> "none"]
  /\ isettings = [p \in Procs |-> Undefined]
  /\ ibefore = [p \in Procs |-> Undefined]
  /\ prevRun = Undefined

\* The settings file as the first run finds it.
SettingsFile ==
  /\ ~IsDefined(file)
  /\ \E f \in InitialFiles : file' = f /\ serial' = f
  /\ UNCHANGED <<ipc, iop, isettings, ibefore, prevRun>>

\* A process starts install or uninstall: const settings = await
\* readClaudeSettings().
ReadSettings(p) ==
  /\ IsDefined(file)
  /\ ipc[p] = "idle"
  /\ \E op \in {"install", "uninstall"} :
       /\ iop' = [iop EXCEPT ![p] = op]
       /\ serial' = IF Writes(op, readClaudeSettings(file)) THEN serial
                    ELSE ApplyOp(op, serial)
  /\ isettings' = [isettings EXCEPT ![p] = readClaudeSettings(file)]
  /\ ibefore' = [ibefore EXCEPT ![p] = file]
  /\ ipc' = [ipc EXCEPT ![p] = "decide"]
  /\ UNCHANGED <<file, prevRun>>

\* The marker check and what follows it up to the write: return, or change
\* the settings object.  settings.hooks of null is a TypeError.
Decide(p) ==
  /\ ipc[p] = "decide"
  /\ IF isettings[p].type # "object"
     THEN /\ ipc' = [ipc EXCEPT ![p] = "fault"]
          /\ UNCHANGED isettings
     ELSE IF iop[p] = "install"
     THEN IF isHookInstalled(isettings[p])
          THEN /\ ipc' = [ipc EXCEPT ![p] = "skipped"]
               /\ UNCHANGED isettings
          ELSE /\ ipc' = [ipc EXCEPT ![p] = "write"]
               /\ isettings' = [isettings EXCEPT ![p] = installSettings(@)]
     ELSE IF ~isHookInstalled(isettings[p])
          THEN /\ ipc' = [ipc EXCEPT ![p] = "skipped"]
               /\ UNCHANGED isettings
          ELSE /\ ipc' = [ipc EXCEPT ![p] = "write"]
               /\ isettings' = [isettings EXCEPT ![p] = uninstallSettings(@)]
  /\ UNCHANGED <<file, serial, iop, ibefore, prevRun>>

\* writeClaudeSettings: mkdir, then writeFile opens the file for writing,
\* which creates or truncates it.
WriteOpen(p) ==
  /\ ipc[p] = "write"
  /\ file' = EmptyText
  /\ ipc' = [ipc EXCEPT ![p] = "writing"]
  /\ UNCHANGED <<serial, iop, isettings, ibefore, prevRun>>

\* writeFile writes the text and closes; of two overlapping writes the later
\* one is taken to replace the earlier.
WriteData(p) ==
  /\ ipc[p] = "writing"
  /\ file' = SettingsText(isettings[p])
  /\ serial' = ApplyOp(iop[p], serial)
  /\ ipc' = [ipc EXCEPT ![p] = "written"]
  /\ UNCHANGED <<iop, isettings, ibefore, prevRun>>

\* The process ends.
Exit(p) ==
  /\ ipc[p] \in {"skipped", "written", "fault"}
  /\ ipc' = [ipc EXCEPT ![p] = "idle"]
  /\ iop' = [iop EXCEPT ![p] = "none"]
  /\ isettings' = [isettings EXCEPT ![p] = Undefined]
  /\ ibefore' = [ibefore EXCEPT ![p] = Undefined]
  /\ prevRun' = [type |-> "run", op |-> iop[p], before |-> ibefore[p], end |-> ipc[p]]
  /\ UNCHANGED <<file, serial>>

\* Several CLI processes at once.
InstallNext ==
  \/ SettingsFile /\ UNCHANGED <<hookVars, llmVars, hrVars>>
  \/ \E p \in Procs : ReadSettings(p) /\ UNCHANGED <<hookVars, llmVars, hrVars>>
  \/ \E p \in Procs : Decide(p) /\ UNCHANGED <<hookVars, llmVars, hrVars>>
  \/ \E p \in Procs : WriteOpen(p) /\ UNCHANGED <<hookVars, llmVars, hrVars>>
  \/ \E p \in Procs : WriteData(p) /\ UNCHANGED <<hookVars, llmVars, hrVars>>
  \/ \E p \in Procs : Exit(p) /\ UNCHANGED <<hookVars, llmVars, hrVars>>

\* One run after another.
InstallSeqNext ==
  \/ SettingsFile /\ UNCHANGED <<hookVars, llmVars, hrVars>>
  \/ \E p \in SeqProcs : ReadSettings(p) /\ UNCHANGED <<hookVars, llmVars, hrVars>>
  \/ \E p \in SeqProcs : Decide(p) /\ UNCHANGED <<hookVars, llmVars, hrVars>>
  \/ \E p \in SeqProcs : WriteOpen(p) /\ UNCHANGED <<hookVars, llmVars, hrVars>>
  \/ \E p \in SeqProcs : WriteData(p) /\ UNCHANGED <<hookVars, llmVars, hrVars>>
  \/ \E p \in SeqProcs : Exit(p) /\ UNCHANGED <<hookVars, llmVars, hrVars>>

Init == HookInit /\ LLMInit /\ HRInit /\ InstallInit

Next == HookNext

Spec == Init /\ [][Next]_vars

\* install and uninstall: concurrent processes, and runs in sequence.
InstallSpec == Init /\ [][InstallNext]_vars
InstallSeqSpec == Init /\ [][InstallSeqNext]_vars

\* checkHighRiskPatterns alone.
HRSpec == Init /\ [][HRNext]_vars

\* callLLM alone.
LLMSpec == Init /\ [][LLMNext]_vars

\* Time passes, a due timer runs, and the client rejects an aborted call.
LLMFairness ==
  /\ WF_vars(Tick /\ UNCHANGED <<hookVars, hrVars, installVars>>)
  /\ WF_vars(TimerFire /\ UNCHANGED <<hookVars, hrVars, installVars>>)
  /\ WF_vars(RemoteAborted /\ UNCHANGED <<hookVars, hrVars, installVars>>)

LLMLiveSpec == LLMSpec /\ LLMFairness

\* ================================================================== claims
\* What the analyzers report for a command, against the registries as loaded.
Blocked(c) == checkInstantBlock(c, INSTANT_BLOCK_PATTERNS).blocked
CheckpointOf(c) == detectCheckpoint(c)
DomainsOf(c) == checkTrustedDomains(c, TRUSTED_DOMAINS)
EveryUrlTrusted(c) ==
  \A i \in 1..Len(DomainsOf(c).urls) : IsTrusted(DomainsOf(c).urls[i], TRUSTED_DOMAINS)

\* The request under evaluation is a Bash request carrying a command.
BashCommand ==
  /\ IsDefined(input)
  /\ input.type = "object"
  /\ input.tool_name = "Bash"
  /\ input.tool_input.type = "object"

Cmd == input.tool_input.command

\* processPermissionRequest has returned its ProcessResult.
Decided == pc \in {"returned", "exit"} /\ IsDefined(result)

\* C1: a Bash request whose command the instant block checker reports as
\* blocked is decided deny with source instant-block, and is never taken to
\* the checkpoint detector or the domain verifier, whatever they would say.
C1_InstantBlockDenies ==
  (BashCommand /\ Blocked(Cmd)) =>
    /\ pc \notin {"step3", "step4", "step5", "fault"}
    /\ pc \in {"returned", "exit"} => IsDefined(result)
    /\ IsDefined(result) =>
         /\ result.decision = "deny"
         /\ result.source = "instant-block"

\* A blocked command that the detector would class as network and whose every
\* URL is trusted has been decided.
C1_Witness ==
  /\ BashCommand /\ Decided
  /\ Blocked(Cmd)
  /\ CheckpointOf(Cmd).type = "network"
  /\ DomainsOf(Cmd).allTrusted

\* C2: for a Bash command that is not blocked and whose checkpoint is
\* script_execution or network, the result is allow/trusted-domain exactly
\* when at least one URL was extracted and every extracted URL is trusted;
\* otherwise it is needs-review/checkpoint carrying the checkpoint.
C2_TrustedDomainIff ==
  (BashCommand /\ Decided /\ ~Blocked(Cmd)
     /\ CheckpointOf(Cmd).type \in {"script_execution", "network"}) =>
    IF Len(DomainsOf(Cmd).urls) > 0 /\ EveryUrlTrusted(Cmd)
    THEN /\ result.decision = "allow"
         /\ result.source = "trusted-domain"
    ELSE /\ result.decision = "needs-review"
         /\ result.source = "checkpoint"
         /\ result.checkpoint = CheckpointOf(Cmd)

\* A script execution with one trusted and one untrusted URL went to review.
C2_Witness ==
  /\ BashCommand /\ Decided
  /\ CheckpointOf(Cmd).type \in {"script_execution", "network"}
  /\ Len(DomainsOf(Cmd).trustedUrls) > 0
  /\ Len(DomainsOf(Cmd).untrustedUrls) > 0
  /\ result.decision = "needs-review"

\* C3: for a Bash command that is not blocked and whose checkpoint is
\* package_install, env_modification or git_operation, the result is
\* needs-review/checkpoint, whatever URLs the command holds.
C3_NoDowngrade ==
  (BashCommand /\ Decided /\ ~Blocked(Cmd)
     /\ CheckpointOf(Cmd).type \in {"package_install", "env_modification",
                                    "git_operation"}) =>
    /\ result.decision = "needs-review"
    /\ result.source = "checkpoint"

\* A package install all of whose URLs are trusted went to review.
C3_Witness ==
  /\ BashCommand /\ Decided
  /\ CheckpointOf(Cmd).type = "package_install"
  /\ DomainsOf(Cmd).allTrusted
  /\ result.decision = "needs-review"

\* C4: runHook answers allow only for an allow verdict; a needs-review
\* verdict is answered deny with a message containing the verdict's reason,
\* and a deny verdict is answered deny with the reason as message.
C4_HookNeverUpgrades ==
  /\ (pc = "exit" /\ IsDefined(result)) => Len(stdout) = 1
  /\ \A i \in 1..Len(stdout) :
       /\ stdout[i].behavior = "allow" =>
            IsDefined(result) /\ result.decision = "allow"
       /\ (IsDefined(result) /\ result.decision = "needs-review") =>
            /\ stdout[i].behavior = "deny"
            /\ stdout[i].message.type = "string"
            /\ Includes(stdout[i].message.text, result.reason)
       /\ (IsDefined(result) /\ result.decision = "deny") =>
            /\ stdout[i].behavior = "deny"
            /\ stdout[i].message = Str(result.reason)

\* runHook has answered a needs-review verdict.
C4_Witness ==
  /\ pc = "exit"
  /\ IsDefined(result)
  /\ result.decision = "needs-review"
  /\ Len(stdout) = 1

\* C5: when stdin is not valid JSON, runHook writes exactly one response, a
\* deny with a non-empty message, never runs the decision pipeline, and
\* returns normally.
InvalidStdin == entry = "runHook" /\ IsDefined(stdin) /\ ~stdin.json

C5_InvalidJsonDenied ==
  InvalidStdin =>
    /\ pc \in {"parse", "exit"}
    /\ calls = << >>
    /\ ~IsDefined(result)
    /\ ~IsDefined(input)
    /\ pc = "parse" => stdout = << >>
    /\ pc = "exit" =>
         /\ Len(stdout) = 1
         /\ stdout[1].behavior = "deny"
         /\ stdout[1].message.type = "string"
         /\ Len(stdout[1].message.text) > 0

\* runHook has returned after reading stdin that is not JSON.
C5_Witness == InvalidStdin /\ pc = "exit" /\ Len(stdout) = 1

\* C6: runHook never ends in an uncaught fault: for every stdin content it
\* ends having written exactly one response.
C6_NeverFatal ==
  entry = "runHook" =>
    /\ pc # "fault"
    /\ pc = "exit" => Len(stdout) = 1

\* C7: a Bash command that is not blocked and has no checkpoint is decided
\* allow/no-checkpoint with no checkpoint attached, and the domain verifier is
\* not consulted.
Invoked(stage) == \E i \in 1..Len(calls) : calls[i] = stage

C7_NoCheckpointAllows ==
  (BashCommand /\ ~Blocked(Cmd) /\ CheckpointOf(Cmd).type = "null") =>
    /\ ~Invoked("checkTrustedDomains")
    /\ pc \notin {"step4", "step5", "fault"}
    /\ pc \in {"returned", "exit"} =>
         /\ IsDefined(result)
         /\ result.decision = "allow"
         /\ result.source = "no-checkpoint"
         /\ ~IsDefined(result.checkpoint)

\* A command with a trusted URL and no checkpoint has been allowed.
C7_Witness ==
  /\ BashCommand /\ Decided
  /\ ~Blocked(Cmd)
  /\ CheckpointOf(Cmd).type = "null"
  /\ Len(DomainsOf(Cmd).urls) > 0
  /\ result.source = "no-checkpoint"

\* C8: a request whose tool_name is not Bash is decided allow/non-bash-tool
\* whatever its tool_input, and no analyzer is invoked.
NonBashRequest ==
  /\ IsDefined(input)
  /\ ~ToolNameOf(input).threw
  /\ ToolNameOf(input).name # "Bash"

C8_NonBashAllowed ==
  NonBashRequest =>
    /\ calls = << >>
    /\ pc \in {"step1", "returned", "exit"}
    /\ pc \in {"returned", "exit"} =>
         /\ IsDefined(result)
         /\ result.decision = "allow"
         /\ result.source = "non-bash-tool"

\* A non-Bash request whose tool_input carries a blocked command was allowed.
C8_Witness ==
  /\ NonBashRequest /\ Decided
  /\ input.type = "object"
  /\ input.tool_input.type = "object"
  /\ Blocked(input.tool_input.command)
  /\ result.source = "non-bash-tool"

\* C9: every evaluation of a request yields the verdict that the request and
\* the registries as loaded determine, however many evaluations the process
\* has performed before, and no evaluation changes the registries.
Verdict(v) ==
  IF ToolNameOf(v).name # "Bash"
  THEN ProcessResult("allow", NonBashReason(ToolNameOf(v).name), "non-bash-tool",
                     Undefined)
  ELSE LET c == v.tool_input.command
           br == checkInstantBlock(c, INSTANT_BLOCK_PATTERNS)
           cp == detectCheckpoint(c)
           dr == checkTrustedDomains(c, TRUSTED_DOMAINS)
       IN IF br.blocked
          THEN ProcessResult("deny", br.reason, "instant-block", Undefined)
          ELSE IF cp.type = "null"
          THEN ProcessResult("allow", <<"No security checkpoint triggered">>,
                             "no-checkpoint", Undefined)
          ELSE IF cp.type \in {"script_execution", "network"}
                  /\ dr.allTrusted /\ Len(dr.urls) > 0
          THEN ProcessResult("allow",
                             <<"All URLs from trusted domains: ">>
                               \o Join(dr.trustedUrls, ", "),
                             "trusted-domain", Undefined)
          ELSE ProcessResult("needs-review",
                             <<"Checkpoint triggered: ", cp.type, " - ">>
                               \o cp.description,
                             "checkpoint", cp)

C10_Cancelled ==
  /\ (llmPc = "awaiting" /\ timer = "fired") => aborted
  /\ (llmPc = "resolved" /\ settledBy = "abort") =>
       /\ ~llmResult.ok
       /\ llmResult.error = "timeout"
  /\ (llmPc = "resolved" /\ settledBy = "response") =>
       /\ timer = "cleared"
       /\ llmResult.error # "timeout"

\* C10, as a property of behaviours: the safety part always holds, a pending
\* call always resolves, and a call pending when the timer fires resolves
\* with timeout.
C10_TimeoutBound ==
  /\ []C10_Cancelled
  /\ (llmPc = "awaiting") ~> (llmPc = "resolved")
  /\ (llmPc = "awaiting" /\ timer = "fired")
       ~> (llmPc = "resolved" /\ llmResult.error = "timeout")

\* The timer fired on a pending call and callLLM resolved with timeout.
C10_Witness ==
  /\ llmPc = "resolved"
  /\ settledBy = "abort"
  /\ timer = "fired"
  /\ now >= deadline
  /\ llmResult.error = "timeout"

\* C11: callLLM never raises: however the remote call settles, the promise
\* resolves to ok with data or to one of the four error variants with a
\* message.
LLMErrors == {"empty_response", "parse_error", "timeout", "api_error"}

C11_NeverRaises ==
  /\ llmPc # "rejected"
  /\ llmPc = "resolved" =>
       IF llmResult.ok
       THEN llmResult.data.type = "object"
       ELSE /\ llmResult.error \in LLMErrors
            /\ Len(llmResult.message) > 0

\* A thrown value that is not an Error was reported as api_error.
C11_Witness ==
  /\ llmPc = "resolved"
  /\ settledWith = NonError
  /\ llmResult.error = "api_error"

\* C12: a failure of the remote call that happens before the timeout timer
\* fires (no abort signalled) is reported as api_error carrying the
\* underlying message; timeout is reported only when the timer fired.
C12_ApiErrorUnlessElapsed ==
  /\ (llmPc = "resolved" /\ settledBy = "error") =>
       /\ llmResult.error = "api_error"
       /\ settledWith.isError => llmResult.message = settledWith.message
  /\ (llmPc = "resolved" /\ llmResult.error = "timeout") => settledBy = "abort"

\* C14: a response that arrives is classified in this order: first content
\* block missing, not text, or with empty text gives empty_response;
\* otherwise text without an extractable structured fragment gives
\* parse_error; otherwise ok carrying exactly the extracted data.
C14_ResponseClassified ==
  (llmPc = "resolved" /\ settledBy = "response") =>
    LET content == settledWith.content IN
      IF \/ content = << >>
         \/ Head(content).type # "text"
         \/ Head(content).text = << >>
      THEN ~llmResult.ok /\ llmResult.error = "empty_response"
      ELSE LET text == Head(content).text
               at == {i \in 1..Len(text) : text[i] \in JsonFragments}
           IN IF at = {}
              THEN ~llmResult.ok /\ llmResult.error = "parse_error"
              ELSE /\ llmResult.ok
                   /\ llmResult.data =
                        ParseJson(text[CHOOSE i \in at : \A j \in at : i <= j])

\* A response whose first block is not text but whose second block holds a
\* fragment was classified as an empty response.
C14_Witness ==
  /\ llmPc = "resolved"
  /\ settledBy = "response"
  /\ Len(settledWith.content) = 2
  /\ llmResult.error = "empty_response"

\* C15: one invocation of callLLM issues exactly one remote call; after a
\* failure, a timeout, an empty response or a parse error the error result is
\* returned without the remote service being called again.
C15_SingleRemoteCall ==
  /\ llmPc = "idle" => remoteCalls = 0
  /\ llmPc # "idle" => remoteCalls = 1

\* callLLM returned an error result after its only remote call failed.
C15_Witness ==
  /\ llmPc = "resolved"
  /\ settledBy = "error"
  /\ ~llmResult.ok
  /\ remoteCalls = 1

\* C19: once callLLM has resolved, on every path, its timeout timer is no
\* longer pending, so no abort is signalled after the result was returned.
C19_TimerReleased ==
  llmPc = "resolved" => timer # "pending"

\* C16: checkHighRiskPatterns returns not detected for an empty or
\* whitespace-only command, whatever the signatures match, and when no
\* signature matches; otherwise it returns the name, severity, description,
\* risk and legitimate uses of the first matching signature in registry
\* order, whatever the severity of later ones, and tests no signature after
\* the first match.
HRMatching(cmd, patterns) ==
  {i \in 1..Len(patterns) :
     \E k \in 1..Len(cmd) : cmd[k] = patterns[i].token}

HRFirst(cmd, patterns) ==
  CHOOSE i \in HRMatching(cmd, patterns) :
    \A j \in HRMatching(cmd, patterns) : i <= j

C16_FirstMatchReference ==
  hrPc = "done" =>
    IF hrCommand = << >> \/ (\A k \in 1..Len(hrCommand) : hrCommand[k] = SPACE)
    THEN hrResult = [detected |-> FALSE] /\ hrTested = << >>
    ELSE IF HRMatching(hrCommand, hrPatterns) = {}
    THEN /\ hrResult = [detected |-> FALSE]
         /\ hrTested = [i \in 1..Len(hrPatterns) |-> hrPatterns[i].name]
    ELSE LET first == HRFirst(hrCommand, hrPatterns) IN
           /\ hrResult.detected
           /\ hrResult.patternName = hrPatterns[first].name
           /\ hrResult.severity = hrPatterns[first].severity
           /\ hrResult.description = hrPatterns[first].description
           /\ hrResult.risk = hrPatterns[first].risk
           /\ hrResult.legitimateUses = hrPatterns[first].legitimateUses
           /\ hrTested = [i \in 1..first |-> hrPatterns[i].name]

\* A command matched a high signature and, later in the table, a critical
\* one: the high one was reported and the critical one never tested.
C16_Witness ==
  /\ hrPc = "done"
  /\ hrResult.detected
  /\ hrResult.severity = "high"
  /\ \E i \in 1..Len(hrPatterns) :
       /\ hrPatterns[i].severity = "critical"
       /\ RegexTest(hrPatterns[i], hrCommand)
  /\ Len(hrTested) = 1

\* C17: processPermissionRequest invokes its stages in the fixed order tool
\* check, instant block checker, checkpoint detector, trusted-domain verifier
\* and short-circuits: the checkpoint detector is never invoked after a
\* block, the trusted-domain verifier only after a checkpoint of type
\* script_execution or network, and no stage runs once the verdict is decided.
Stages == <<"checkInstantBlock", "detectCheckpoint", "checkTrustedDomains">>

StagesFor(r) ==
  IF r.source = "non-bash-tool" THEN 0
  ELSE IF r.source = "instant-block" THEN 1
  ELSE IF r.source = "no-checkpoint" THEN 2
  ELSE IF r.source = "trusted-domain" THEN 3
  ELSE IF r.checkpoint.type \in {"script_execution", "network"} THEN 3
  ELSE 2

C17_StageOrder ==
  /\ \E n \in 0..3 : calls = SubSeq(Stages, 1, n)
  /\ calls # << >> => (BashCommand /\ pc \notin {"idle", "parse", "step1"})
  /\ Invoked("detectCheckpoint") => ~blockResult.blocked
  /\ Invoked("checkTrustedDomains") =>
       checkpoint.type \in {"script_execution", "network"}
  /\ Decided => calls = SubSeq(Stages, 1, StagesFor(result))

\* A package installation was sent to review after two stages, the
\* trusted-domain verifier not being consulted.
C17_Witness ==
  /\ Decided
  /\ result.decision = "needs-review"
  /\ result.checkpoint.type = "package_install"
  /\ calls = <<"checkInstantBlock", "detectCheckpoint">>

MarkedInFile ==
  IF IsDefined(file) /\ file.type = "text" /\ file.parses /\ file.value.type = "object"
  THEN Cardinality(Marked(PermissionRequestOf(file.value)))
  ELSE 0

Quiescent == IsDefined(file) /\ \A p \in Procs : ipc[p] = "idle"

\* C13: install and uninstall are idempotent: after any sequence of runs the
\* settings hold at most one PermissionRequest entry with the vibesafu
\* marker; install with the marker present, and uninstall with it absent,
\* write nothing and leave the settings unchanged.
C13_NoOpStep(p) ==
  (/\ ipc[p] = "decide"
   /\ ipc'[p] # "decide"
   /\ isettings[p].type = "object"
   /\ IF iop[p] = "install" THEN isHookInstalled(isettings[p])
      ELSE ~isHookInstalled(isettings[p]))
  => (ipc'[p] = "skipped" /\ file' = file)

C13_Idempotent ==
  /\ [](MarkedInFile <= 1)
  /\ [](\A p \in Procs : ipc[p] = "skipped" => readClaudeSettings(file) = isettings[p])
  /\ [][\A p \in Procs : C13_NoOpStep(p)]_vars

\* An install run found the marker of an installed hook and ended without
\* writing.
C13_Witness ==
  /\ ipc["p1"] = "skipped"
  /\ iop["p1"] = "install"
  /\ MarkedInFile = 1
  /\ PermissionRequestOf(file.value)[Len(PermissionRequestOf(file.value))] = VIBESAFU_HOOK

\* C20: with several install and uninstall processes running at once on the
\* same file, every interleaving ends with at most one vibesafu-marked
\* PermissionRequest entry and with no update of one process lost to another:
\* the file holds what the runs give one after another.
C20_NoLostUpdate ==
  /\ MarkedInFile <= 1
  /\ Quiescent => file = serial

\* What a settings file holds besides vibesafu hooks: the other top-level
\* setting, the other hook event, and the PermissionRequest commands without
\* the marker, each with the matcher of its entry.
RECURSIVE OtherCommands(_)
OtherCommands(items) ==
  IF Len(items) = 0 THEN << >>
  ELSE LET others == SelectSeq(Head(items).hooks,
                               LAMBDA h : ~Includes(h.command, <<"vibesafu">>))
       IN [j \in 1..Len(others) |->
             [matcher |-> Head(items).matcher, command |-> others[j].command]]
          \o OtherCommands(Tail(items))

Kept(content) ==
  IF content = InvalidText
  THEN [model |-> TRUE, preToolUse |-> FALSE, commands |-> << >>]
  ELSE IF content.type = "text" /\ content.parses /\ content.value.type = "object"
  THEN [model |-> content.value.model,
        preToolUse |-> IsDefined(content.value.hooks) /\ content.value.hooks.PreToolUse,
        commands |-> OtherCommands(PermissionRequestOf(content.value))]
  ELSE [model |-> FALSE, preToolUse |-> FALSE, commands |-> << >>]

\* C21: install and uninstall change nothing in the settings file except
\* vibesafu hooks: the other top-level setting, the other hook event and
\* every PermissionRequest command without the marker (also one that shares
\* its entry with a vibesafu command) are in the file after the run as they
\* were in the file the run read, also when that file did not parse.
C21_OthersPreserved ==
  \A p \in Procs :
    ipc[p] \in {"skipped", "written", "fault"} => Kept(file) = Kept(ibefore[p])

\* An uninstall run has just written, and the run before it was an install
\* run that wrote: install, then uninstall, from the file the install read.
RoundTripDone(p) ==
  /\ ipc[p] = "written"
  /\ iop[p] = "uninstall"
  /\ IsDefined(prevRun)
  /\ prevRun.op = "install"
  /\ prevRun.end = "written"

Original == readClaudeSettings(prevRun.before)

\* C22 as stated: from every settings state without the vibesafu hook,
\* also one with an empty hooks object or an empty PermissionRequest list,
\* install followed by uninstall gives settings equal to the original.
C22_RoundTrip ==
  \A p \in Procs : RoundTripDone(p) => readClaudeSettings(file) = Original

\* Settings without an empty PermissionRequest list and without a hooks
\* object that holds nothing.
WithoutEmpty(settings) ==
  IF ~IsDefined(settings.hooks) THEN settings
  ELSE LET pr == settings.hooks.PermissionRequest
           gone == ~IsDefined(pr) \/ Len(pr.items) = 0
       IN IF gone /\ ~settings.hooks.PreToolUse
          THEN [settings EXCEPT !.hooks = Undefined]
          ELSE IF gone
          THEN [settings EXCEPT !.hooks.PermissionRequest = Undefined]
          ELSE settings

\* C22, amended: from every settings state without the vibesafu hook,
\* install followed by uninstall gives the original settings without an
\* empty PermissionRequest list and without an empty hooks object; the
\* original itself when it holds neither.
C22_RoundTripUpToEmpty ==
  \A p \in Procs :
    RoundTripDone(p) =>
      /\ readClaudeSettings(file) = WithoutEmpty(Original)
      /\ (/\ IsDefined(Original.hooks)
          /\ IsDefined(Original.hooks.PermissionRequest)
          /\ Len(Original.hooks.PermissionRequest.items) > 0)
         => readClaudeSettings(file) = Original

\* Install and then uninstall gave back settings that hold another tool's
\* entry, another hook event and another top-level setting.
C22_Witness ==
  /\ RoundTripDone("p1")
  /\ Original.model
  /\ IsDefined(Original.hooks)
  /\ Original.hooks.PreToolUse
  /\ PermissionRequestOf(Original) = <<OTHER_HOOK>>
  /\ readClaudeSettings(file) = Original

====
